---- MODULE Spec2Model ----
(***************************************************************************)
(* Image slider and fullscreen viewer of the page script.                  *)
(*                                                                         *)
(* The script exists in two copies.  src/unnamed/part_000 pre-loads every  *)
(* slider image off screen and commits it from the load callback           *)
(* (variant "preload"); src/assets/js/animations.js writes the entry       *)
(* straight into the visible elements (variant "direct").  Both copies     *)
(* share the navigation handlers and the guards of initializeImageSlider.  *)
(* The fullscreen viewer exists in part_000 only.                          *)
(*                                                                         *)
(* Every DOM event handler runs to completion on the single event thread,  *)
(* so a handler is one action.  A handler that throws keeps the            *)
(* assignments it made before the throw; the uncaught error is recorded    *)
(* in the variable uncaught.                                               *)
(***************************************************************************)
EXTENDS Bags, FiniteSets, Integers, Sequences, TLC

\* The largest number of slider pre-loads in flight at once that is explored.
MaxPending == 2

\* Longest text of the .ascii-art element, in characters.
MaxTextLen == 3

VARIABLES
    variant,        \* which copy of the script runs: "preload" or "direct"
    images,         \* the slider's entry list (const images)
    elems,          \* ids of the slider elements the page provides
    sliderStatus,   \* "start" before initializeImageSlider, then "aborted" or "ready"
    listeners,      \* slider buttons that carry a click listener
    currentIndex,   \* let currentIndex
    shownSrc,       \* sliderImage.src
    shownAlt,       \* sliderImage.alt
    shownCaption,   \* imageCaption.textContent
    opacity,        \* sliderImage.style.opacity
    hidden,         \* slider elements whose style.display is 'none'
    pending,        \* bag of pre-loads in flight, each by the index it was requested for
    dom,            \* images in the document that match the viewer's selector list
    viewerElems,    \* ids of the viewer elements the page provides
    viewerStatus,   \* "start" before setupImageFullscreen, then "done"
    registered,     \* page images that carry the viewer's onclick
    attached,       \* viewer handlers installed besides the images' onclick
    modalDisplay,   \* modal.style.display
    modalSrc,       \* modalImg.src
    modalCaption,   \* captionText.textContent
    bodyOverflow,   \* document.body.style.overflow
    uncaught,       \* functions and handlers that ended in an uncaught exception
    themeStatus,    \* "start" before createThemeToggler, then "ready"
    storedTheme,    \* localStorage item 'theme'
    dataTheme,      \* data-theme attribute of the document element
    themeIcon,      \* themeToggleButton.innerHTML
    prefersDark,    \* matchMedia("(prefers-color-scheme: dark)").matches
    typingStatus,   \* "start" before createTypingEffect, then "absent", "failed" or "typing"
    hasAsciiArt,    \* whether the page has an .ascii-art element
    hasGsap,        \* whether the gsap global is defined
    originalText,   \* asciiArt.innerHTML before the effect, as a sequence of characters
    currentLine,    \* let currentLine
    currentChar,    \* let currentChar
    typed,          \* the characters appended to outputDiv so far
    timers,         \* typeText timers scheduled and not yet fired
    hasScrollTrigger, \* whether the ScrollTrigger global is defined
    pageStatus,     \* "loading" before the DOMContentLoaded listener ran, then "loaded"
    runKind,        \* observer: kind of the current streak of equal navigation clicks
    runStart,       \* observer: currentIndex when that streak began
    runLen,         \* observer: clicks in that streak (restarts after a full cycle)
    scen,           \* observer: events matched so far of the end-to-end script, -1 once off it
    lastEvent,      \* observer: the event handled last
    lastReq,        \* observer: index the pre-load resolved last was requested for, else -1
    lastInput       \* observer: key, click target or image of the last viewer event, else ""

sliderVars == <<variant, images, elems, sliderStatus, listeners, currentIndex,
                shownSrc, shownAlt, shownCaption, opacity, hidden, pending>>
viewerVars == <<dom, viewerElems, viewerStatus, registered, attached,
                modalDisplay, modalSrc, modalCaption, bodyOverflow>>
themeVars == <<themeStatus, storedTheme, dataTheme, themeIcon, prefersDark>>
typingVars == <<typingStatus, hasAsciiArt, hasGsap, originalText, currentLine,
                currentChar, typed, timers>>
pageVars == <<hasScrollTrigger, pageStatus>>
effectVars == <<themeVars, typingVars, pageVars>>
observerVars == <<runKind, runStart, runLen, scen, lastEvent, lastReq, lastInput>>
vars == <<sliderVars, viewerVars, effectVars, uncaught, observerVars>>

----------------------------------------------------------------------------
(* The entry list and the page's slider elements                           *)

AllImages ==
    << [src |-> "assets/images/Main Menu Showcase.PNG", caption |-> "Main Menu"],
       [src |-> "assets/images/Agent Showcase.png", caption |-> "Agent Mode Showcase"],
       [src |-> "assets/images/Agent Mode New commands.PNG", caption |-> "Agent Mode - New Commands"],
       [src |-> "assets/images/Second Agent.PNG", caption |-> "Agent Mode - Example Interaction"],
       [src |-> "assets/images/First Implementation Chat With Ai.png", caption |-> "Chat With AI - Initial Query"],
       [src |-> "assets/images/Second Implementation Chat With Ai.PNG", caption |-> "Chat With AI - Follow-up" ] >>

\* The entry lists explored: the script's own list and every prefix of it,
\* the empty list included.
EntryLists == { SubSeq(AllImages, 1, n) : n \in 0..Len(AllImages) }

SliderElementIds == {"sliderImage", "imageCaption", "prevImage", "nextImage"}

Variants == {"preload", "direct"}

\* images.length
Length == Len(images)

\* images[i] of the script (0-based); undefined outside 0..length-1.
HasEntry(i) == i \in 0..(Length - 1)
Entry(i) == images[i + 1]

ErrorText == "Image failed to load"
EmptyText == "No images to display."

----------------------------------------------------------------------------
(* Observers.  They record which events happened; no handler reads them.   *)

\* The end-to-end script: three entries, every load succeeding before the
\* following click, clicks next, next, next, previous.
ScenarioEntries == <<AllImages[1], AllImages[2], AllImages[3]>>
ScenarioScript ==
    IF variant = "preload"
    THEN <<"DOMContentLoaded", "load", "next", "load", "next", "load", "next", "load", "prev", "load">>
    ELSE <<"DOMContentLoaded", "next", "next", "next", "prev">>

Advance(e) ==
    scen' = IF /\ scen >= 0
               /\ scen < Len(ScenarioScript)
               /\ ScenarioScript[scen + 1] = e
               /\ images = ScenarioEntries
            THEN scen + 1
            ELSE -1

\* The event handled in this step.
Observe(e, req, input) ==
    /\ lastEvent' = e
    /\ lastReq' = req
    /\ lastInput' = input

\* A navigation click of kind k extends the streak of k-clicks, or starts a
\* new one when the kind changes or a full cycle of images.length is done.
Streak(k) ==
    IF runKind = k /\ runLen < Length
    THEN /\ runLen' = runLen + 1
         /\ UNCHANGED <<runKind, runStart>>
    ELSE /\ runKind' = k
         /\ runStart' = currentIndex
         /\ runLen' = 1

----------------------------------------------------------------------------
(* initializeImageSlider                                                   *)

\* Variant of the guard that tests the image element only.
RequiredElementsPresent_ImageOnly == "sliderImage" \in elems

\* if (!sliderImage || !imageCaption || !prevButton || !nextButton) return;
RequiredElementsPresent == SliderElementIds \subseteq elems

\* Variant of the previous-step that wraps to the first entry.
goPrevious_WrapsToFirst(i, n) == IF i > 0 THEN i - 1 ELSE 0

\* currentIndex = (currentIndex > 0) ? currentIndex - 1 : images.length - 1
goPrevious(i, n) == IF i > 0 THEN i - 1 ELSE n - 1

\* Variant of the next-step without wraparound.
goNext_NoWrap(i, n) == i + 1

\* Variant of the next-step that wraps one entry early.
goNext_WrapsEarly(i, n) == IF i < n - 2 THEN i + 1 ELSE 0

\* currentIndex = (currentIndex < images.length - 1) ? currentIndex + 1 : 0
goNext(i, n) == IF i < n - 1 THEN i + 1 ELSE 0

\* The pre-load request of updateSlider: new Image() with src images[i].src.
RequestLoad(i) == pending' = pending (+) SetToBag({i})

\* Variant of the commit that leaves the caption element as it was.
Commit_KeepsCaption(i) ==
    /\ shownSrc' = Entry(i).src
    /\ shownAlt' = Entry(i).caption
    /\ UNCHANGED shownCaption

\* The visible elements take entry i.
Commit(i) ==
    /\ shownSrc' = Entry(i).src
    /\ shownAlt' = Entry(i).caption
    /\ shownCaption' = Entry(i).caption

\* updateSlider(), called by handler `who` once currentIndex has the value i.
\* images[i].src throws a TypeError when images[i] is undefined.
UpdateSlider(i, who) ==
    IF variant = "preload"
    THEN /\ opacity' = "0.5"
         /\ IF HasEntry(i)
            THEN RequestLoad(i) /\ UNCHANGED uncaught
            ELSE uncaught' = uncaught \cup {who} /\ UNCHANGED pending
         /\ UNCHANGED <<shownSrc, shownAlt, shownCaption>>
    ELSE /\ IF HasEntry(i)
            THEN Commit(i) /\ UNCHANGED uncaught
            ELSE /\ uncaught' = uncaught \cup {who}
                 /\ UNCHANGED <<shownSrc, shownAlt, shownCaption>>
         /\ UNCHANGED <<opacity, pending>>

\* The body of initializeImageSlider after the missing-element guard.
SetUpSlider ==
    /\ sliderStatus' = "ready"
    /\ listeners' = {"prevImage", "nextImage"}
    /\ UNCHANGED currentIndex
    /\ IF Length > 0
       THEN /\ IF variant = "preload"
               THEN \* part_000 writes images[0] before the first updateSlider()
                    /\ Commit(0)
                    /\ opacity' = "0.5"
                    /\ RequestLoad(currentIndex)
               ELSE /\ Commit(currentIndex)
                    /\ UNCHANGED <<opacity, pending>>
            /\ UNCHANGED hidden
       ELSE /\ shownCaption' = EmptyText
            /\ hidden' = hidden \cup {"sliderImage", "prevImage", "nextImage"}
            /\ UNCHANGED <<shownSrc, shownAlt, opacity, pending>>

\* initializeImageSlider, as called by the DOMContentLoaded listener.
initializeImageSlider ==
    /\ IF RequiredElementsPresent
       THEN SetUpSlider
       ELSE /\ sliderStatus' = "aborted"
            /\ UNCHANGED <<listeners, currentIndex, shownSrc, shownAlt,
                           shownCaption, opacity, hidden, pending>>
    /\ UNCHANGED <<variant, images, elems>>

----------------------------------------------------------------------------
(* Navigation clicks                                                       *)

\* The click listener of the previous button.
PrevHandler ==
    /\ currentIndex' = goPrevious(currentIndex, Length)
    /\ UpdateSlider(goPrevious(currentIndex, Length), "prevImage.click")

\* The click listener of the next button.
NextHandler ==
    /\ currentIndex' = goNext(currentIndex, Length)
    /\ UpdateSlider(goNext(currentIndex, Length), "nextImage.click")

\* A click event on the previous button; without a listener nothing runs.
ClickPrevious ==
    /\ sliderStatus # "start"
    /\ "prevImage" \in elems
    /\ BagCardinality(pending) < MaxPending
    /\ IF "prevImage" \in listeners
       THEN PrevHandler
       ELSE UNCHANGED <<currentIndex, shownSrc, shownAlt, shownCaption,
                        opacity, pending, uncaught>>
    /\ Streak("prev")
    /\ Advance("prev")
    /\ Observe("prev", -1, "")
    /\ UNCHANGED effectVars
    /\ UNCHANGED <<variant, images, elems, sliderStatus, listeners, hidden>>
    /\ UNCHANGED viewerVars

\* A click event on the next button.
ClickNext ==
    /\ sliderStatus # "start"
    /\ "nextImage" \in elems
    /\ BagCardinality(pending) < MaxPending
    /\ IF "nextImage" \in listeners
       THEN NextHandler
       ELSE UNCHANGED <<currentIndex, shownSrc, shownAlt, shownCaption,
                        opacity, pending, uncaught>>
    /\ Streak("next")
    /\ Advance("next")
    /\ Observe("next", -1, "")
    /\ UNCHANGED effectVars
    /\ UNCHANGED <<variant, images, elems, sliderStatus, listeners, hidden>>
    /\ UNCHANGED viewerVars

----------------------------------------------------------------------------
(* Load callbacks of a pre-load requested for index i                      *)

\* Variant of img.onload that commits the entry the pre-load was requested for.
OnLoadCommit_Requested(i) == Commit(i)

\* Variant of img.onload that commits the first entry.
OnLoadCommit_First(i) == Commit(0)

\* img.onload of the pre-load requested for index i: the closure reads
\* currentIndex when it runs, not the index it was requested for.
OnLoadCommit(i) == Commit(currentIndex)

\* Variant of the load completion that also refreshes the modal image.
ImageLoaded_UpdatesModal(i) ==
    /\ BagIn(i, pending)
    /\ pending' = pending (-) SetToBag({i})
    /\ OnLoadCommit(i)
    /\ opacity' = "1"
    /\ Advance("load")
    /\ Observe("load", i, "")
    /\ UNCHANGED effectVars
    /\ UNCHANGED <<variant, images, elems, sliderStatus, listeners, currentIndex,
                   hidden, uncaught, runKind, runStart, runLen>>
    /\ modalSrc' = shownSrc'
    /\ UNCHANGED <<dom, viewerElems, viewerStatus, registered, attached,
                   modalDisplay, modalCaption, bodyOverflow>>

ImageLoaded(i) ==
    /\ BagIn(i, pending)
    /\ pending' = pending (-) SetToBag({i})
    /\ OnLoadCommit(i)
    /\ opacity' = "1"
    /\ Advance("load")
    /\ Observe("load", i, "")
    /\ UNCHANGED effectVars
    /\ UNCHANGED <<variant, images, elems, sliderStatus, listeners, currentIndex,
                   hidden, uncaught, runKind, runStart, runLen>>
    /\ UNCHANGED viewerVars

\* Variant of img.onerror that leaves the image dimmed.
OnErrorCommit_StaysDim ==
    /\ shownSrc' = ""
    /\ shownAlt' = ErrorText
    /\ shownCaption' = ErrorText
    /\ UNCHANGED <<opacity, currentIndex>>

\* img.onerror
OnErrorCommit ==
    /\ shownSrc' = ""
    /\ shownAlt' = ErrorText
    /\ shownCaption' = ErrorText
    /\ opacity' = "1"
    /\ UNCHANGED currentIndex

ImageFailed(i) ==
    /\ BagIn(i, pending)
    /\ pending' = pending (-) SetToBag({i})
    /\ OnErrorCommit
    /\ Advance("error")
    /\ Observe("error", i, "")
    /\ UNCHANGED effectVars
    /\ UNCHANGED <<variant, images, elems, sliderStatus, listeners,
                   hidden, uncaught, runKind, runStart, runLen>>
    /\ UNCHANGED viewerVars

----------------------------------------------------------------------------
(* The fullscreen viewer (part_000): page fixture                          *)

ViewerElementIds == {"image-modal", "fullscreen-image", "modal-caption", "close-modal"}

\* Images of the page that match the viewer's selector list.  mcpShot sits in
\* a .mcp-showcase-item that has an .image-caption; bareShot has no alt.
PageImages == {"mcpShot", "galleryShot", "bareShot", "sliderImage"}

\* An image that matches the selector list and is inserted into the document
\* by some other script while the page is open.
LateImages == {"lateShot"}

\* this.src of a page image; the slider image shows what the slider wrote.
ImgSrc(img) ==
    CASE img = "sliderImage" -> shownSrc
      [] img = "mcpShot" -> "assets/images/mcp.png"
      [] img = "galleryShot" -> "assets/images/gallery.png"
      [] img = "lateShot" -> "assets/images/late.png"
      [] OTHER -> "assets/images/bare.png"

\* this.alt of a page image; '' when the attribute is missing.
ImgAlt(img) ==
    CASE img = "sliderImage" -> shownAlt
      [] img = "mcpShot" -> "MCP alt"
      [] img = "galleryShot" -> "Gallery alt"
      [] img = "lateShot" -> "Late alt"
      [] OTHER -> ""

\* this.closest('.mcp-showcase-item')?.querySelector('.image-caption')
HasNearbyCaption(img) == img = "mcpShot"
NearbyCaptionText(img) == "MCP caption"

\* Variant of the caption choice that prefers the alt text.
CaptionContent_AltFirst(img) ==
    IF ImgAlt(img) # "" THEN ImgAlt(img)
    ELSE IF HasNearbyCaption(img) THEN NearbyCaptionText(img) ELSE ""

\* let captionContent = this.alt || ''; if (nearbyCaption) captionContent = ...
CaptionContent(img) ==
    IF HasNearbyCaption(img) THEN NearbyCaptionText(img) ELSE ImgAlt(img)

Keys == {"Escape", "Enter", "a"}

----------------------------------------------------------------------------
(* setupImageFullscreen                                                    *)

\* images.forEach(...) runs first; closeBtn.onclick = ... throws when closeBtn
\* is null, modal.onclick = ... throws when modal is null, and a throw skips
\* the rest of the function.
setupImageFullscreen ==
    /\ viewerStatus' = "done"
    /\ registered' = dom
    /\ attached' = IF "close-modal" \notin viewerElems THEN {}
                   ELSE IF "image-modal" \notin viewerElems THEN {"closeBtn.onclick"}
                   ELSE {"closeBtn.onclick", "modal.onclick", "keydown"}
    /\ UNCHANGED <<dom, viewerElems, modalDisplay, modalSrc, modalCaption, bodyOverflow>>

\* Whether setupImageFullscreen ends with an uncaught TypeError.
SetupThrows == "close-modal" \notin viewerElems \/ "image-modal" \notin viewerElems

\* Variant of the registration test that looks the image up in the live
\* document.
IsClickable_Live(img) == img \in dom

\* Whether img carries the viewer's onclick: images.forEach assigned it to the
\* images the selector list matched when setupImageFullscreen ran.
IsClickable(img) == img \in registered

\* Variant of img.onclick that keeps what an open modal shows.
ImageOnClick_KeepsOpenModal(img) ==
    IF modalDisplay = "block"
    THEN UNCHANGED <<modalDisplay, modalSrc, modalCaption, bodyOverflow, uncaught>>
    ELSE /\ modalDisplay' = "block"
         /\ modalSrc' = ImgSrc(img)
         /\ modalCaption' = CaptionContent(img)
         /\ bodyOverflow' = "hidden"
         /\ UNCHANGED uncaught

\* img.onclick of a registered image.  Each statement dereferences one viewer
\* element; a null element throws and leaves the earlier assignments in place.
ImageOnClick(img) ==
    IF "image-modal" \notin viewerElems
    THEN /\ uncaught' = uncaught \cup {"img.onclick"}
         /\ UNCHANGED <<modalDisplay, modalSrc, modalCaption, bodyOverflow>>
    ELSE /\ modalDisplay' = "block"
         /\ IF "fullscreen-image" \notin viewerElems
            THEN /\ uncaught' = uncaught \cup {"img.onclick"}
                 /\ UNCHANGED <<modalSrc, modalCaption, bodyOverflow>>
            ELSE /\ modalSrc' = ImgSrc(img)
                 /\ IF "modal-caption" \notin viewerElems
                    THEN /\ uncaught' = uncaught \cup {"img.onclick"}
                         /\ UNCHANGED <<modalCaption, bodyOverflow>>
                    ELSE /\ modalCaption' = CaptionContent(img)
                         /\ bodyOverflow' = "hidden"
                         /\ UNCHANGED uncaught

\* A click on an image of the document; an image without onclick runs nothing.
ImageClick(img) ==
    /\ viewerStatus = "done"
    /\ img \in dom
    /\ IF IsClickable(img)
       THEN ImageOnClick(img)
       ELSE UNCHANGED <<modalDisplay, modalSrc, modalCaption, bodyOverflow, uncaught>>
    /\ UNCHANGED <<dom, viewerElems, viewerStatus, registered, attached>>
    /\ Observe("imageClick", -1, img)
    /\ UNCHANGED effectVars
    /\ UNCHANGED <<sliderVars, runKind, runStart, runLen, scen>>

\* Another script inserts an image that matches the selector list.
AddImage(img) ==
    /\ img \notin dom
    /\ dom' = dom \cup {img}
    /\ UNCHANGED <<viewerElems, viewerStatus, registered, attached,
                   modalDisplay, modalSrc, modalCaption, bodyOverflow, uncaught>>
    /\ Observe("addImage", -1, img)
    /\ UNCHANGED effectVars
    /\ UNCHANGED <<sliderVars, runKind, runStart, runLen, scen>>

\* Variant of the close that leaves page scroll suppressed.
CloseModal_KeepsScrollLock ==
    /\ modalDisplay' = "none"
    /\ UNCHANGED <<bodyOverflow, modalSrc, modalCaption>>

\* modal.style.display = "none"; document.body.style.overflow = 'auto';
CloseModal ==
    /\ modalDisplay' = "none"
    /\ bodyOverflow' = "auto"
    /\ UNCHANGED <<modalSrc, modalCaption>>

\* A click on the close control.  closeBtn.onclick dereferences modal.
CloseClick ==
    /\ viewerStatus = "done"
    /\ "close-modal" \in viewerElems
    /\ IF "closeBtn.onclick" \notin attached
       THEN UNCHANGED <<modalDisplay, modalSrc, modalCaption, bodyOverflow, uncaught>>
       ELSE IF "image-modal" \notin viewerElems
       THEN /\ uncaught' = uncaught \cup {"closeBtn.onclick"}
            /\ UNCHANGED <<modalDisplay, modalSrc, modalCaption, bodyOverflow>>
       ELSE CloseModal /\ UNCHANGED uncaught
    /\ UNCHANGED <<dom, viewerElems, viewerStatus, registered, attached>>
    /\ Observe("closeClick", -1, "close-modal")
    /\ UNCHANGED effectVars
    /\ UNCHANGED <<sliderVars, runKind, runStart, runLen, scen>>

\* Variant of modal.onclick that closes whatever was clicked.
BackdropHandler_AnyTarget(target) == CloseModal

\* modal.onclick: if (event.target === modal) close
BackdropHandler(target) ==
    IF target = "image-modal"
    THEN CloseModal
    ELSE UNCHANGED <<modalDisplay, modalSrc, modalCaption, bodyOverflow>>

\* A click inside the modal whose target is the modal itself (the backdrop),
\* the modal image or the modal caption.
ModalClick(target) ==
    /\ viewerStatus = "done"
    /\ {"image-modal", target} \subseteq viewerElems
    /\ IF "modal.onclick" \in attached
       THEN BackdropHandler(target)
       ELSE UNCHANGED <<modalDisplay, modalSrc, modalCaption, bodyOverflow>>
    /\ UNCHANGED <<dom, viewerElems, viewerStatus, registered, attached, uncaught>>
    /\ Observe("modalClick", -1, target)
    /\ UNCHANGED effectVars
    /\ UNCHANGED <<sliderVars, runKind, runStart, runLen, scen>>

\* Variant of the keydown listener without the visibility test.
KeydownHandler_NoVisibilityTest(key) ==
    IF key = "Escape"
    THEN CloseModal
    ELSE UNCHANGED <<modalDisplay, modalSrc, modalCaption, bodyOverflow>>

\* The keydown listener:
\* if (event.key === 'Escape' && modal.style.display === 'block') close
KeydownHandler(key) ==
    IF key = "Escape" /\ modalDisplay = "block"
    THEN CloseModal
    ELSE UNCHANGED <<modalDisplay, modalSrc, modalCaption, bodyOverflow>>

\* A key press anywhere on the page.
KeyDown(key) ==
    /\ viewerStatus = "done"
    /\ IF "keydown" \in attached
       THEN KeydownHandler(key)
       ELSE UNCHANGED <<modalDisplay, modalSrc, modalCaption, bodyOverflow>>
    /\ UNCHANGED <<dom, viewerElems, viewerStatus, registered, attached, uncaught>>
    /\ Observe("keydown", -1, key)
    /\ UNCHANGED effectVars
    /\ UNCHANGED <<sliderVars, runKind, runStart, runLen, scen>>

----------------------------------------------------------------------------
(* createThemeToggler                                                      *)

sunIcon == "sun"
moonIcon == "moon"

\* Values the key 'theme' may hold in localStorage; "<null>" is an absent key.
StoredThemes == {"<null>", "", "light", "dark", "blue", "Light"}

\* Values of the data-theme attribute in the markup; "<null>" is no attribute.
MarkupThemes == {"<null>", "light", "dark"}

\* if (currentTheme): null and the empty string are falsy.
Truthy(str) == str \notin {"<null>", ""}

\* The theme and icon chosen from the stored value and the system preference.
InitialTheme ==
    IF Truthy(storedTheme) THEN storedTheme
    ELSE IF prefersDark THEN "dark" ELSE "light"

InitialIcon ==
    IF Truthy(storedTheme)
    THEN (IF storedTheme = "light" THEN moonIcon ELSE sunIcon)
    ELSE IF prefersDark THEN sunIcon ELSE moonIcon

\* createThemeToggler, as called by the DOMContentLoaded listener.
createThemeToggler ==
    /\ themeStatus' = "ready"
    /\ IF ~Truthy(InitialTheme)
       THEN dataTheme' = "dark" /\ themeIcon' = sunIcon
       ELSE dataTheme' = InitialTheme /\ themeIcon' = InitialIcon
    /\ UNCHANGED <<storedTheme, prefersDark>>

\* Variant of the click listener that always shows the sun icon.
ToggleTheme_SunOnly ==
    /\ dataTheme' = (IF dataTheme = "light" THEN "dark" ELSE "light")
    /\ themeIcon' = sunIcon
    /\ storedTheme' = dataTheme'

\* The click listener of the toggle button.
ToggleTheme ==
    /\ IF dataTheme = "light"
       THEN dataTheme' = "dark" /\ themeIcon' = sunIcon
       ELSE dataTheme' = "light" /\ themeIcon' = moonIcon
    /\ storedTheme' = dataTheme'

ThemeClick ==
    /\ themeStatus = "ready"
    /\ ToggleTheme
    /\ UNCHANGED <<themeStatus, prefersDark>>
    /\ Observe("themeClick", -1, dataTheme)
    /\ UNCHANGED <<sliderVars, viewerVars, typingVars, pageVars, uncaught,
                   runKind, runStart, runLen, scen>>

\* localStorage is shared by the pages of the origin: another page writes the
\* key 'theme'.
OtherPageStores(v) ==
    /\ v # storedTheme
    /\ storedTheme' = v
    /\ UNCHANGED <<themeStatus, dataTheme, themeIcon, prefersDark>>
    /\ Observe("storage", -1, v)
    /\ UNCHANGED <<sliderVars, viewerVars, typingVars, pageVars, uncaught,
                   runKind, runStart, runLen, scen>>

----------------------------------------------------------------------------
(* createTypingEffect                                                      *)

\* The characters of the text; "\n" separates lines.
Chars == {"a", "&", "\n"}

Texts == UNION {[1..n -> Chars] : n \in 0..MaxTextLen}

\* originalText.split('\n'): the text up to the first "\n", then the split of
\* what follows it; a text without "\n" (the empty text too) is one line.
RECURSIVE Split(_)
Split(text) ==
    IF \E k \in 1..Len(text) : text[k] = "\n"
    THEN LET k == CHOOSE j \in 1..Len(text) :
                      /\ text[j] = "\n"
                      /\ \A h \in 1..(j - 1) : text[h] # "\n"
         IN  <<SubSeq(text, 1, k - 1)>> \o Split(SubSeq(text, k + 1, Len(text)))
    ELSE <<text>>

\* const lines = originalText.split('\n')
Lines == Split(originalText)

\* Variant of typeText that re-arms its timer after the last line.
TypeText_RearmsWhenDone(rest) ==
    IF currentLine < Len(Lines)
    THEN LET line == Lines[currentLine + 1] IN
         IF currentChar < Len(line)
         THEN /\ typed' = Append(typed, line[currentChar + 1])
              /\ currentChar' = currentChar + 1
              /\ timers' = rest + 1
              /\ UNCHANGED currentLine
         ELSE /\ typed' = Append(typed, "\n")
              /\ currentLine' = currentLine + 1
              /\ currentChar' = 0
              /\ timers' = rest + 1
    ELSE /\ timers' = rest + 1
         /\ UNCHANGED <<typed, currentLine, currentChar>>

\* typeText, called by a timer while `rest` other timers are pending;
\* typed is the text of outputDiv: outputDiv.innerHTML += c re-parses the
\* escaped serialization plus c, so each step adds the one character c.
TypeText(rest) ==
    IF currentLine < Len(Lines)
    THEN LET line == Lines[currentLine + 1] IN
         IF currentChar < Len(line)
         THEN /\ typed' = Append(typed, line[currentChar + 1])
              /\ currentChar' = currentChar + 1
              /\ timers' = rest + 1
              /\ UNCHANGED currentLine
         ELSE /\ typed' = Append(typed, "\n")
              /\ currentLine' = currentLine + 1
              /\ currentChar' = 0
              /\ timers' = rest + 1
    ELSE /\ timers' = rest
         /\ UNCHANGED <<typed, currentLine, currentChar>>

\* createTypingEffect: returns when there is no .ascii-art element; empties
\* the element, then gsap.timeline() throws a ReferenceError when the global
\* gsap is not defined; else one timer is set for typeText.
createTypingEffect ==
    /\ IF ~hasAsciiArt
       THEN /\ typingStatus' = "absent"
            /\ UNCHANGED timers
       ELSE IF ~hasGsap
       THEN /\ typingStatus' = "failed"
            /\ UNCHANGED timers
       ELSE /\ typingStatus' = "typing"
            /\ timers' = timers + 1
    /\ UNCHANGED <<hasAsciiArt, hasGsap, originalText, currentLine, currentChar, typed>>

\* A pending timer fires and calls typeText.
TimerFires ==
    /\ timers > 0
    /\ TypeText(timers - 1)
    /\ UNCHANGED <<typingStatus, hasAsciiArt, hasGsap, originalText>>
    /\ Observe("timer", -1, "")
    /\ UNCHANGED <<sliderVars, viewerVars, themeVars, pageVars, uncaught,
                   runKind, runStart, runLen, scen>>

----------------------------------------------------------------------------
(* The DOMContentLoaded listener                                           *)

\* if (window.gsap) { gsap.registerPlugin(ScrollTrigger); ... }: the copy
\* with the guard reads the global ScrollTrigger unguarded, a ReferenceError
\* when gsap is defined and ScrollTrigger is not; the module copy imports
\* both.
RegisterPluginThrows == variant = "preload" /\ hasGsap /\ ~hasScrollTrigger

\* What ended with an uncaught exception: the listener itself at
\* registerPlugin; else, with the global gsap undefined, gsap.timeline() in
\* createTypingEffect when there is an .ascii-art element and gsap.set() in
\* createScrollToTopButton when there is none; else setupImageFullscreen,
\* which only one copy of the script has and which is the last call.
Thrown ==
    IF RegisterPluginThrows THEN {"DOMContentLoaded"}
    ELSE IF ~hasGsap
    THEN {IF hasAsciiArt THEN "createTypingEffect" ELSE "createScrollToTopButton"}
    ELSE IF variant = "preload" /\ SetupThrows THEN {"setupImageFullscreen"}
    ELSE {}

\* The listener, one synchronous task: registerPlugin, createTypingEffect,
\* createThemeToggler, initializeImageSlider and, in the copy that has it,
\* setupImageFullscreen, in this order; an exception ends the listener, so
\* nothing after the throwing call runs.
DOMContentLoaded ==
    /\ pageStatus = "loading"
    /\ pageStatus' = "loaded"
    /\ UNCHANGED hasScrollTrigger
    /\ IF RegisterPluginThrows
       THEN UNCHANGED <<typingVars, themeVars, sliderVars, viewerVars>>
       ELSE /\ createTypingEffect
            /\ IF ~hasGsap
               THEN UNCHANGED <<themeVars, sliderVars, viewerVars>>
               ELSE /\ createThemeToggler
                    /\ initializeImageSlider
                    /\ IF variant = "preload"
                       THEN setupImageFullscreen
                       ELSE UNCHANGED viewerVars
    /\ uncaught' = uncaught \cup Thrown
    /\ Advance("DOMContentLoaded")
    /\ Observe("DOMContentLoaded", -1, "")
    /\ UNCHANGED <<runKind, runStart, runLen>>

----------------------------------------------------------------------------
(* Specifications                                                          *)

\* The viewer before setupImageFullscreen, on a page with all its elements.
ViewerAtStart ==
    /\ viewerStatus = "start"
    /\ registered = {}
    /\ attached = {}
    /\ modalDisplay = ""
    /\ modalSrc = ""
    /\ modalCaption = ""
    /\ bodyOverflow = ""

\* The theme toggler before it is created, on a page without stored theme.
ThemeAtStart ==
    /\ themeStatus = "start"
    /\ storedTheme = "<null>"
    /\ dataTheme = "<null>"
    /\ themeIcon = ""
    /\ prefersDark = FALSE

\* The typing effect before it is created, on a page without an .ascii-art
\* element.
TypingAtStart ==
    /\ typingStatus = "start"
    /\ hasAsciiArt = FALSE
    /\ originalText = << >>
    /\ currentLine = 0
    /\ currentChar = 0
    /\ typed = << >>
    /\ timers = 0

\* The page before the listener runs: gsap and ScrollTrigger are globals of
\* scripts that may not have loaded in one copy, imports in the other.
PageAtStart ==
    /\ pageStatus = "loading"
    /\ hasGsap \in BOOLEAN
    /\ hasScrollTrigger \in BOOLEAN
    /\ variant = "direct" => (hasGsap /\ hasScrollTrigger)

EffectsAtStart == ThemeAtStart /\ TypingAtStart /\ PageAtStart

\* The images of the markup; the slider image is one when the page has it.
InitialDom == {img \in PageImages : img = "sliderImage" => img \in elems}

\* The slider before initializeImageSlider.
SliderAtStart ==
    /\ sliderStatus = "start"
    /\ listeners = {}
    /\ currentIndex = 0
    /\ shownSrc = ""
    /\ shownAlt = ""
    /\ shownCaption = ""
    /\ opacity = ""
    /\ hidden = {}
    /\ pending = EmptyBag
    /\ runKind = "none"
    /\ runStart = 0
    /\ runLen = 0
    /\ scen = 0
    /\ lastEvent = "none"
    /\ lastReq = -1
    /\ lastInput = ""

Init ==
    /\ variant \in Variants
    /\ images \in EntryLists
    /\ elems \in SUBSET SliderElementIds
    /\ SliderAtStart
    /\ viewerElems = ViewerElementIds
    /\ dom = InitialDom
    /\ ViewerAtStart
    /\ EffectsAtStart
    /\ uncaught = {}

Next ==
    \/ DOMContentLoaded
    \/ ClickPrevious
    \/ ClickNext
    \/ \E i \in 0..(Len(AllImages) - 1) : ImageLoaded(i)
    \/ \E i \in 0..(Len(AllImages) - 1) : ImageFailed(i)

\* The slider: any entry list, any set of slider elements, either copy.
Spec == Init /\ [][Next]_vars

InitViewer ==
    /\ variant = "preload"
    /\ images = AllImages
    /\ elems \in {SliderElementIds, {}}
    /\ SliderAtStart
    /\ viewerElems \in SUBSET ViewerElementIds
    /\ dom = InitialDom
    /\ ViewerAtStart
    /\ EffectsAtStart
    /\ uncaught = {}

NextViewer ==
    \/ DOMContentLoaded
    \/ \E img \in PageImages \cup LateImages : ImageClick(img)
    \/ \E img \in LateImages : AddImage(img)
    \/ CloseClick
    \/ \E target \in {"image-modal", "fullscreen-image", "modal-caption"} : ModalClick(target)
    \/ \E key \in Keys : KeyDown(key)

\* The viewer: any set of viewer elements.
SpecViewer == InitViewer /\ [][NextViewer]_vars

\* The page of the script with the viewer: all elements present, three
\* entries.
InitPage ==
    /\ variant = "preload"
    /\ images = ScenarioEntries
    /\ elems = SliderElementIds
    /\ SliderAtStart
    /\ viewerElems = ViewerElementIds
    /\ dom = InitialDom
    /\ ViewerAtStart
    /\ EffectsAtStart
    /\ uncaught = {}

NextPage ==
    \/ DOMContentLoaded
    \/ ClickPrevious
    \/ ClickNext
    \/ \E i \in 0..(Length - 1) : ImageLoaded(i)
    \/ \E i \in 0..(Length - 1) : ImageFailed(i)
    \/ \E img \in {"sliderImage", "galleryShot"} : ImageClick(img)
    \/ CloseClick
    \/ \E target \in {"image-modal", "fullscreen-image"} : ModalClick(target)
    \/ \E key \in {"Escape", "a"} : KeyDown(key)

\* Slider and viewer together on one page.
SpecPage == InitPage /\ [][NextPage]_vars

\* The theme toggler: any stored value, either system preference, any
\* data-theme attribute in the markup.
InitTheme ==
    /\ variant \in Variants
    /\ images = AllImages
    /\ elems = SliderElementIds
    /\ SliderAtStart
    /\ viewerElems = ViewerElementIds
    /\ dom = InitialDom
    /\ ViewerAtStart
    /\ themeStatus = "start"
    /\ storedTheme \in StoredThemes
    /\ dataTheme \in MarkupThemes
    /\ themeIcon = ""
    /\ prefersDark \in BOOLEAN
    /\ TypingAtStart
    /\ PageAtStart
    /\ uncaught = {}

NextTheme ==
    \/ DOMContentLoaded
    \/ ThemeClick
    \/ \E v \in StoredThemes : OtherPageStores(v)

SpecTheme == InitTheme /\ [][NextTheme]_vars

\* The typing effect: any text of at most MaxTextLen characters; gsap is
\* imported in the module script and a global, possibly undefined, in the
\* other.
InitTyping ==
    /\ variant \in Variants
    /\ images = AllImages
    /\ elems = SliderElementIds
    /\ SliderAtStart
    /\ viewerElems = ViewerElementIds
    /\ dom = InitialDom
    /\ ViewerAtStart
    /\ ThemeAtStart
    /\ typingStatus = "start"
    /\ hasAsciiArt \in BOOLEAN
    /\ PageAtStart
    /\ originalText \in Texts
    /\ ~hasAsciiArt => originalText = << >>
    /\ currentLine = 0
    /\ currentChar = 0
    /\ typed = << >>
    /\ timers = 0
    /\ uncaught = {}

NextTyping ==
    \/ DOMContentLoaded
    \/ TimerFires

\* Every pending timer eventually fires.
SpecTyping == InitTyping /\ [][NextTyping]_vars /\ WF_vars(TimerFires)

----------------------------------------------------------------------------
(* Properties                                                              *)

\* The names under which the slider's and the viewer's functions and handlers
\* are recorded in uncaught.
SliderFunctions == {"initializeImageSlider", "prevImage.click", "nextImage.click"}
ViewerFunctions == {"setupImageFullscreen", "img.onclick", "closeBtn.onclick"}

\* The visible image, its alt text and the caption are those of entry i.
Shows(i) ==
    /\ shownSrc = Entry(i).src
    /\ shownAlt = Entry(i).caption
    /\ shownCaption = Entry(i).caption

ShowsError ==
    /\ shownSrc = ""
    /\ shownAlt = ErrorText
    /\ shownCaption = ErrorText

\* C1: with a non-empty entry list, currentIndex stays within
\* 0 .. images.length - 1 in every reachable state, whatever the clicks and
\* load callbacks.
C1_IndexInRange ==
    Length > 0 => (currentIndex >= 0 /\ currentIndex < Length)

\* A previous-click at index 0 has wrapped to the last entry while a
\* pre-load is in flight.
C1_WrappedToLast ==
    /\ sliderStatus = "ready"
    /\ Length > 1
    /\ lastEvent = "prev"
    /\ runLen = 1
    /\ runStart = 0
    /\ currentIndex = Length - 1
    /\ pending # EmptyBag

\* C2 as stated: a pre-load requested for index i that succeeds commits
\* entries[i], also when clicks happened in between.
C2_CommitsRequestedEntry ==
    lastEvent = "load" => Shows(lastReq)

\* C2 amended: a pre-load that succeeds commits the entry at currentIndex as
\* it is when the load completes (the requested entry when currentIndex is
\* still the requested index); the copy without pre-load commits the entry
\* of the new currentIndex within the click or the initialization itself.
C2_CommitsCurrentEntry ==
    /\ lastEvent = "load" =>
          /\ Shows(currentIndex)
          /\ (lastReq = currentIndex => Shows(lastReq))
    /\ (variant = "direct" /\ sliderStatus = "ready" /\ Length > 0
            /\ lastEvent \in {"DOMContentLoaded", "prev", "next"}) =>
          Shows(currentIndex)

\* The pre-load requested at initialization for index 0 completed after a
\* next-click: entry 1 is shown while the pre-load for index 1 is in flight.
C2_EarlierLoadShowsCurrent ==
    /\ lastEvent = "load"
    /\ lastReq = 0
    /\ currentIndex = 1
    /\ Shows(1)
    /\ pending = SetToBag({1})

\* C3 as stated, its part on navigation: with an empty entry list, after
\* initialization no navigation click changes currentIndex, the visible
\* source, alt and caption or the opacity, and none raises an exception.
C3_EmptyListClicksInert ==
    (Length = 0 /\ sliderStatus = "ready") =>
        /\ currentIndex = 0
        /\ shownSrc = ""
        /\ shownAlt = ""
        /\ shownCaption = EmptyText
        /\ opacity = ""
        /\ uncaught \cap SliderFunctions = {}

\* What one navigation click must do: the index the click must produce and the single render
\* request it must issue (a pre-load for the new index, or in the copy
\* without pre-load the commit of the new entry).
C4_ClickStep ==
    (sliderStatus = "ready" /\ Length > 0 /\ lastEvent' \in {"prev", "next"}) =>
        /\ (lastEvent' = "next" /\ currentIndex < Length - 1) => currentIndex' = currentIndex + 1
        /\ (lastEvent' = "next" /\ currentIndex = Length - 1) => currentIndex' = 0
        /\ (lastEvent' = "prev" /\ currentIndex > 0) => currentIndex' = currentIndex - 1
        /\ (lastEvent' = "prev" /\ currentIndex = 0) => currentIndex' = Length - 1
        /\ variant = "preload" => pending' = pending (+) SetToBag({currentIndex'})
        /\ variant = "direct" => (pending' = pending /\ Shows(currentIndex)')

\* The end-to-end run: the indices after the clicks next, next, next,
\* previous on three entries.
ScenarioIndices == <<1, 2, 0, 2>>

\* Clicks of the end-to-end run handled so far, and whether the last one's
\* entry has been committed.
ScenarioClicks ==
    IF variant = "preload" THEN (scen - 1) \div 2 ELSE scen - 1
ScenarioCommitted ==
    IF variant = "preload" THEN scen % 2 = 0 ELSE TRUE

C4_EndToEnd ==
    (sliderStatus = "ready" /\ scen >= 0 /\ ScenarioClicks >= 1) =>
        /\ currentIndex = ScenarioIndices[ScenarioClicks]
        /\ ScenarioCommitted => shownCaption = Entry(ScenarioIndices[ScenarioClicks]).caption

\* C4: a next-click moves currentIndex from i to i+1, or to 0 from the last
\* index; a previous-click moves it to i-1, or to the last index from 0; each
\* click issues exactly one render request for the new index; on three
\* entries the clicks next, next, next, previous, each load succeeding before
\* the following click, give indices 1, 2, 0, 2 and their captions.
C4_Navigation == [][C4_ClickStep]_vars /\ []C4_EndToEnd

\* The end-to-end run is complete in the copy with pre-load: four clicks,
\* each followed by its successful load.
C4_RunComplete ==
    /\ variant = "preload"
    /\ scen = Len(ScenarioScript)
    /\ currentIndex = 2
    /\ shownCaption = "Agent Mode - New Commands"

\* C5: images.length consecutive next-clicks, or as many consecutive
\* previous-clicks, bring currentIndex back to where the streak started.
C5_FullCycleReturns ==
    (sliderStatus = "ready" /\ Length > 0 /\ runLen = Length) =>
        currentIndex = runStart

\* Six previous-clicks in a row on the six entries, started at index 3.
C5_SixPreviousFromThree ==
    /\ sliderStatus = "ready"
    /\ Length = 6
    /\ runKind = "prev"
    /\ runLen = 6
    /\ runStart = 3

\* What a step that handles a failed pre-load must do.
C6_ErrorStep ==
    lastEvent' = "error" =>
        /\ ShowsError'
        /\ opacity' = "1"
        /\ currentIndex' = currentIndex
        /\ BagCardinality(pending') = BagCardinality(pending) - 1

\* C6: a failed pre-load commits the error state (empty source, alt and
\* caption "Image failed to load", full opacity) whatever index it was
\* requested for and whatever currentIndex is; it leaves currentIndex alone
\* and starts no new pre-load.
C6_LoadFailureCommitsError == [][C6_ErrorStep]_vars

\* A pre-load requested for index 1 failed while currentIndex was 2.
C6_FailedWhileElsewhere ==
    /\ lastEvent = "error"
    /\ lastReq = 1
    /\ currentIndex = 2
    /\ ShowsError
    /\ opacity = "1"

\* C7 as stated: while at least one pre-load is in flight the opacity is
\* 0.5, also when another overlapping request has resolved; with a non-empty
\* list the opacity is 1 once none is in flight.
C7_DimWhilePending ==
    /\ pending # EmptyBag => opacity = "0.5"
    /\ (variant = "preload" /\ sliderStatus = "ready" /\ Length > 0
            /\ pending = EmptyBag) => opacity = "1"

\* C8: when one of the four slider elements is missing, initialization
\* attaches no listener, issues no render request and throws nothing, and the
\* slider state stays as it was before initialization whatever is clicked.
C8_MissingElementInert ==
    elems # SliderElementIds =>
        /\ sliderStatus \in {"start", "aborted"}
        /\ listeners = {}
        /\ pending = EmptyBag
        /\ currentIndex = 0
        /\ shownSrc = "" /\ shownAlt = "" /\ shownCaption = ""
        /\ opacity = ""
        /\ hidden = {}
        /\ uncaught \cap SliderFunctions = {}

\* The caption element is missing, initialization has aborted, and the next
\* button has been clicked.
C8_ClickedAfterAbort ==
    /\ elems = SliderElementIds \ {"imageCaption"}
    /\ sliderStatus = "aborted"
    /\ lastEvent = "next"

\* C9 as stated: with a viewer element missing, neither initialization nor
\* any later click or key press raises an exception or leaves page scroll
\* suppressed.
C9_MissingViewerElementHarmless ==
    viewerElems # ViewerElementIds =>
        /\ uncaught \cap ViewerFunctions = {}
        /\ bodyOverflow # "hidden"

\* What a key press other than Escape on a visible modal must leave alone.
C10_KeyStep ==
    (lastEvent' = "keydown" /\ (lastInput' # "Escape" \/ modalDisplay # "block")) =>
        UNCHANGED <<modalDisplay, modalSrc, modalCaption, bodyOverflow, uncaught>>

\* C10: a key press changes nothing unless it is Escape and the modal is
\* visible (display 'block'): pressed while the modal is hidden, also before
\* it was ever opened, Escape leaves modal visibility, image source, caption
\* and page scroll as they are and throws nothing; so does any other key in
\* every state.
C10_EscapeWhileHiddenNoOp == [][C10_KeyStep]_vars

\* Escape was pressed on a page whose modal had been opened and closed.
C10_EscapeAfterClose ==
    /\ viewerElems = ViewerElementIds
    /\ lastEvent = "keydown"
    /\ lastInput = "Escape"
    /\ modalDisplay = "none"
    /\ modalSrc # ""
    /\ bodyOverflow = "auto"
    /\ uncaught = {}

\* The page provides all four viewer elements, as the host contract requires.
FullViewerPage == viewerElems = ViewerElementIds

\* What a click inside a visible modal must do.
C11_ModalClickStep ==
    (FullViewerPage /\ lastEvent' = "modalClick" /\ modalDisplay = "block") =>
        IF lastInput' = "image-modal"
        THEN modalDisplay' = "none" /\ bodyOverflow' = "auto"
        ELSE modalDisplay' = "block" /\ bodyOverflow' = "hidden"

\* C11: while the modal is visible, a click whose target is the backdrop
\* hides the modal and restores page scroll; a click whose target is the
\* modal image or the modal caption leaves the modal visible and page scroll
\* suppressed.
C11_BackdropClosesImageDoesNot == [][C11_ModalClickStep]_vars

\* The modal image was clicked and the modal is still open.
C11_ImageClickedModalOpen ==
    /\ FullViewerPage
    /\ lastEvent = "modalClick"
    /\ lastInput = "fullscreen-image"
    /\ modalDisplay = "block"
    /\ bodyOverflow = "hidden"

\* C12: a click on a registered image sets the modal caption to the text of
\* the caption element of its showcase item when there is one, else to its
\* alt text, else to the empty string; it throws nothing and the caption is
\* never "undefined".
C12_CaptionChoice ==
    (FullViewerPage /\ lastEvent = "imageClick" /\ lastInput \in registered) =>
        /\ lastInput = "mcpShot" => modalCaption = "MCP caption"
        /\ lastInput = "galleryShot" => modalCaption = "Gallery alt"
        /\ lastInput = "lateShot" => modalCaption = "Late alt"
        /\ lastInput = "bareShot" => modalCaption = ""
        /\ lastInput = "sliderImage" => modalCaption = shownAlt
        /\ modalCaption # "undefined"
        /\ uncaught = {}

\* The image with neither caption element nor alt text was clicked after the
\* modal had shown another image's caption.
C12_BareImageAfterCaptioned ==
    /\ FullViewerPage
    /\ lastEvent = "imageClick"
    /\ lastInput = "bareShot"
    /\ modalDisplay = "block"
    /\ modalSrc = "assets/images/bare.png"
    /\ modalCaption = ""

\* Page scroll is suppressed exactly when the modal is visible.
C13_ScrollLockInv ==
    FullViewerPage => (bodyOverflow = "hidden" <=> modalDisplay = "block")

\* What an open and each of the three closes must do in one step.
C13_OpenCloseStep ==
    FullViewerPage =>
        /\ (lastEvent' = "imageClick" /\ lastInput' \in registered) =>
              (modalDisplay' = "block" /\ bodyOverflow' = "hidden")
        /\ (modalDisplay = "block" /\
              \/ lastEvent' = "closeClick"
              \/ lastEvent' = "modalClick" /\ lastInput' = "image-modal"
              \/ lastEvent' = "keydown" /\ lastInput' = "Escape") =>
              (modalDisplay' = "none" /\ bodyOverflow' = "auto")

\* C13: page scroll is suppressed exactly when the modal is visible, in
\* every reachable state and for any sequence of opens and closes: every
\* image click suppresses it, and the close control, a backdrop click and
\* Escape on a visible modal hide the modal and restore scrolling in one step.
C13_ScrollLockedIffVisible == []C13_ScrollLockInv /\ [][C13_OpenCloseStep]_vars

\* The modal was opened and then closed by a click on the backdrop.
C13_ClosedByBackdrop ==
    /\ FullViewerPage
    /\ lastEvent = "modalClick"
    /\ lastInput = "image-modal"
    /\ modalSrc = "assets/images/gallery.png"
    /\ modalDisplay = "none"
    /\ bodyOverflow = "auto"

\* C14: with a non-empty entry list, in every state after initialization the
\* visible source, alt and caption are those of one single entry, or the
\* error triple; never a mix.
C14_TripleConsistent ==
    (sliderStatus = "ready" /\ Length > 0) =>
        \/ \E k \in 0..(Length - 1) : Shows(k)
        \/ ShowsError

\* A pre-load failed while another is still in flight: the error triple is
\* shown whole, although the index has moved on to another entry.
C14_ErrorTripleWhilePending ==
    /\ sliderStatus = "ready"
    /\ Length > 0
    /\ lastEvent = "error"
    /\ ShowsError
    /\ pending # EmptyBag
    /\ currentIndex = 1

\* What the modal must show after a step, given what the page showed before.
C15_ModalStep ==
    FullViewerPage =>
        /\ (lastEvent' = "imageClick" /\ lastInput' \in registered) =>
              /\ modalDisplay' = "block"
              /\ modalSrc' = ImgSrc(lastInput')
              /\ modalCaption' = CaptionContent(lastInput')
        /\ ~(lastEvent' = "imageClick" /\ lastInput' \in registered) =>
              /\ modalSrc' = modalSrc
              /\ modalCaption' = modalCaption
              /\ modalDisplay' = "block" => modalDisplay = "block"

\* C15: only a click on a registered image makes the modal visible or changes
\* its image and caption; every such click, also on an open modal, shows the
\* modal with the source and caption the clicked image had at the click, and
\* no other event changes them afterwards.
C15_ModalShowsLastClicked == [][C15_ModalStep]_vars

\* The slider image was clicked after the slider had moved on to entry 1:
\* the modal shows the source and caption the image had at that click.
C15_ReopenedOnNewerSlide ==
    /\ lastEvent = "imageClick"
    /\ lastInput = "sliderImage"
    /\ modalDisplay = "block"
    /\ modalSrc = Entry(1).src
    /\ modalCaption = Entry(1).caption
    /\ runKind = "next"
    /\ runLen = 1

\* What an image click must do, by whether the image was registered.
C16_RegistrationStep ==
    (FullViewerPage /\ viewerStatus = "done") =>
        /\ registered' = registered
        /\ (lastEvent' = "imageClick" /\ lastInput' \notin registered) =>
              UNCHANGED <<modalDisplay, modalSrc, modalCaption, bodyOverflow, uncaught>>
        /\ (lastEvent' = "imageClick" /\ lastInput' \in registered) =>
              modalDisplay' = "block"

\* C16: the clickable images are those in the document when the viewer was
\* initialized: a click on an image inserted later never opens the modal or
\* changes its image or caption, and every image registered at
\* initialization opens it for the whole session.
C16_StaticRegistration == [][C16_RegistrationStep]_vars

\* An image inserted after initialization was clicked; the modal, opened and
\* closed before, stays closed.
C16_LateImageClicked ==
    /\ FullViewerPage
    /\ viewerStatus = "done"
    /\ "lateShot" \in dom \ registered
    /\ lastEvent = "imageClick"
    /\ lastInput = "lateShot"
    /\ modalDisplay = "none"
    /\ modalSrc # ""

\* C17: right after a pre-load completes successfully the visible entry is
\* the one at currentIndex and the image is at full opacity, whichever index
\* the pre-load was requested for; so once the last of several overlapping
\* loads has succeeded, the entry at currentIndex is shown.
C17_LoadShowsCurrentIndex ==
    (variant = "preload" /\ lastEvent = "load") =>
        (Shows(currentIndex) /\ opacity = "1")

\* Two overlapping pre-loads completed out of order: the one requested first
\* (index 0) resolved last, nothing is in flight, and entry 1 is shown.
C17_OutOfOrderSettled ==
    /\ lastEvent = "load"
    /\ lastReq = 0
    /\ currentIndex = 1
    /\ pending = EmptyBag
    /\ Shows(1)
    /\ runKind = "next"
    /\ runLen = 1

\* The events of the viewer and those of the slider.
ViewerEvents == {"imageClick", "closeClick", "modalClick", "keydown"}
SliderEvents == {"prev", "next", "load", "error"}

\* What each component's events must leave alone.
C18_FrameStep ==
    /\ lastEvent' \in ViewerEvents =>
          UNCHANGED <<currentIndex, shownSrc, shownAlt, shownCaption, opacity,
                      pending, hidden>>
    /\ (lastEvent' \in SliderEvents /\ sliderStatus' = "ready") =>
          UNCHANGED <<modalDisplay, modalSrc, modalCaption, bodyOverflow,
                      registered, attached>>

\* C18: slider and viewer share no state: opening or closing the modal
\* leaves currentIndex, the visible source, alt and caption, the opacity and
\* the pending loads unchanged; a navigation click or a load completion
\* leaves the modal's visibility, image, caption and the page-scroll setting
\* unchanged, also while the modal shows the slider image.
C18_SliderViewerIndependent == [][C18_FrameStep]_vars

\* A pre-load completed and changed the slider image while the modal was
\* open on the slider image: the modal still shows the older slide.
C18_LoadWhileModalOnSlide ==
    /\ lastEvent = "load"
    /\ modalDisplay = "block"
    /\ bodyOverflow = "hidden"
    /\ modalSrc = Entry(0).src
    /\ shownSrc = Entry(1).src

\* The icon of the toggle button matches the page theme.
C19_IconMatchesTheme ==
    themeStatus = "ready" => (themeIcon = moonIcon <=> dataTheme = "light")

\* What a click on the toggle button must do.
C19_ClickStep ==
    lastEvent' = "themeClick" =>
        /\ dataTheme' \in {"light", "dark"}
        /\ dataTheme' = "dark" <=> dataTheme = "light"
        /\ storedTheme' = dataTheme'

\* C19: once the theme toggler is created, whatever the stored theme value
\* and the system preference were, the button shows the moon icon exactly
\* when data-theme is 'light'; after every click data-theme is 'light' or
\* 'dark', 'dark' exactly when it was 'light' before, and the value stored
\* under 'theme' equals data-theme.
C19_ThemeToggler == []C19_IconMatchesTheme /\ [][C19_ClickStep]_vars

\* A click on a page showing 'light', under a dark system preference, has
\* made the theme 'dark', stored and shown with the sun icon.
C19_ToggledFromUnknownTheme ==
    /\ themeStatus = "ready"
    /\ lastEvent = "themeClick"
    /\ lastInput = "light"
    /\ dataTheme = "dark"
    /\ storedTheme = "dark"
    /\ themeIcon = sunIcon
    /\ prefersDark

\* The lines, each followed by a newline, as one text.
RECURSIVE WithNewlines(_)
WithNewlines(ls) ==
    IF ls = << >> THEN << >>
    ELSE Head(ls) \o <<"\n">> \o WithNewlines(Tail(ls))

IsPrefix(a, b) == Len(a) <= Len(b) /\ a = SubSeq(b, 1, Len(a))

\* At most one timer is pending and the typed characters are a prefix of the
\* lines, each followed by a newline.
C20_OneTimerPrefixTyped ==
    /\ timers <= 1
    /\ IsPrefix(typed, WithNewlines(Lines))

\* Every line has been typed and no timer is pending.
C20_AllTyped ==
    /\ typingStatus = "typing"
    /\ typed = WithNewlines(Lines)
    /\ timers = 0

\* C20: the timer chain of the typing effect terminates: at most one timer
\* is pending at any time, the characters typed so far are a prefix of the
\* original lines each followed by a newline, and once the effect has
\* started (there is an .ascii-art element and the timeline was created),
\* with every timer eventually firing, every line is eventually typed, after
\* which no timer is pending and the output never changes.
C20_TypingTerminates ==
    /\ []C20_OneTimerPrefixTyped
    /\ (typingStatus = "typing") ~> C20_AllTyped
    /\ [][C20_AllTyped => (C20_AllTyped' /\ typed' = typed)]_vars

\* A text of two lines, the second with a markup character, is typed out.
C20_TwoLinesTyped ==
    /\ typingStatus = "typing"
    /\ originalText = <<"a", "\n", "&">>
    /\ typed = <<"a", "\n", "&", "\n">>
    /\ currentLine = 2
    /\ timers = 0

====
